---- MODULE Spec2Model ----
(***************************************************************************)
(* co_waiter: Waiter<T> (src/src/waiter.rs) and TokenWaiter<T>             *)
(* (src/src/token_waiter.rs).                                              *)
(*                                                                         *)
(* Memory is a map from addresses to TokenWaiter-sized objects.  An owner  *)
(* context per instance address creates the instance, issues its token,    *)
(* waits and drops it; resolver contexts each run one                      *)
(* TokenWaiter::set_rsp(id, rsp) call.  Every atomic memory operation of   *)
(* the source is one step.  A dereference of memory that holds no live     *)
(* instance is undefined behaviour: the step either faults (the process    *)
(* dies) or operates on whatever the memory holds.                         *)
(***************************************************************************)
EXTENDS Integers, Sequences, FiniteSets, TLC

\* ---------------------------------------------------------------- bounds
WordBits == 8          \* width of usize in the model
MaxInst == 2           \* TokenWaiter instances created, over all addresses
NumResolvers == 2      \* contexts that each call TokenWaiter::set_rsp once
MaxTimeout == 2        \* timeouts are 1..MaxTimeout ticks, or none
MaxWaits == 2          \* wait_rsp calls per instance
MaxSpurious == 1       \* wake-ups of a blocker not caused by set_rsp

\* ---------------------------------------------------------- word arithmetic
RECURSIVE Pow2(_)
Pow2(n) == IF n = 0 THEN 1 ELSE 2 * Pow2(n - 1)

\* usize values are 0 .. WordSize-1
WordSize == Pow2(WordBits)

\* address << 3
Shl3(x) == (x * 8) % WordSize

\* id >> 3
Shr3(x) == x \div 8

\* x & !1
ClearLock(x) == x - (x % 2)

\* address & 3 != 0
Misaligned(address) == address % 4 # 0

\* ------------------------------------------------------------- the universe
\* addresses at which a TokenWaiter can be pinned: two low ones, and one whose
\* high bits address << 3 shifts out of the word
Addrs == {8, 16, 40}

\* the id a pinned instance at address a hands out
Token(a) == Shl3(a)

Resolvers == 1 .. NumResolvers

\* the response resolver r delivers: responses are opaque, each resolver has its own
ValueOf(r) == r

\* AtomicOption::none()
None == 0

\* 0 stands for a wait without timeout
NoTimeout == 0

Timeouts == {NoTimeout, MaxTimeout}

\* ids a transport can hand to set_rsp that no get_id call produced: the null id,
\* a small id, the id of an address that is a multiple of 4 only, a token with its
\* lock bit set, the id of an odd address, and the would-be tokens themselves
ForgedIds == {0, 3, 32, Token(8) + 1, 72} \cup {Token(a) : a \in Addrs}

VARIABLES
    alloc,      \* alloc[a]: memory at a holds a live TokenWaiter
    key,        \* key[a]: TokenWaiter.key
    rsp,        \* rsp[a]: Waiter.rsp, None or a value
    flag,       \* flag[a]: Waiter.blocker's wake signal
    opc,        \* opc[a]: where the owner context of address a is
    timeout,    \* timeout[a]: the timeout of the wait_rsp call in progress
    left,       \* left[a]: ticks until the park in progress times out
    elapsed,    \* elapsed[a]: ticks since the wait_rsp call in progress began
    result,     \* result[a]: what the last wait_rsp call to return on the instance
                \*   returned
    dkey,       \* dkey[a]: drop's local `key`
    waits,      \* waits[a]: wait_rsp calls made on the instance
    rpc,        \* rpc[r]: where resolver r is in set_rsp
    rid,        \* rid[r]: the id resolver r was called with
    crashed,    \* the process died on a fault
    spurious,   \* spurious wake-ups so far
    created,    \* instances created so far
    scope,      \* the part of the universe explored: the addresses instances are
                \*   pinned at and the number of resolver contexts
    \* history, read by no step of the program
    hasId,      \* hasId[a]: get_id was called on the instance at a
    deadId,     \* deadId[a]: an instance at a was dropped after its get_id
    origin,     \* origin[r]: where the id of r's call comes from: "live" (the get_id
                \*   of an instance alive when the call began), "late" (the same, the
                \*   instance's last wait_rsp having returned TimedOut), "stale" (the
                \*   get_id of an instance dropped before the call began), "forged" (no
                \*   get_id); "dangling" once the instance the call began on is dropped
    stored,     \* stored[a]: the values stored into the instance's cell, in order
    instore,    \* instore[a]: since the instance's last wait_rsp returned, a value
                \*   was stored into its cell, not after the deadline of a wait
    intime,     \* intime[a]: since then, a set_rsp on it completed (store and
                \*   unpark), not after the deadline of a wait
    tainted     \* tainted[a]: the instance at a was written by a call that holds a
                \*   dangling reference or that locked it with a forged id

mem == <<alloc, key, rsp, flag>>
owner == <<opc, timeout, left, elapsed, result, dkey, waits>>
resolver == <<rpc, rid, origin>>
hist == <<hasId, deadId, stored, instore, intime, tainted>>
vars == <<mem, owner, resolver, crashed, spurious, created, scope, hist>>

\* a wait_rsp result: its kind and the value of an Ok
Res(k, v) == [kind |-> k, val |-> v]

NoResult == Res("None", 0)

\* --------------------------------------------------------------------- Init
InitIn(sc) ==
    /\ scope = sc
    /\ alloc = [a \in Addrs |-> FALSE]
    /\ key = [a \in Addrs |-> 0]
    /\ rsp = [a \in Addrs |-> None]
    /\ flag = [a \in Addrs |-> FALSE]
    /\ opc = [a \in Addrs |-> "none"]
    /\ timeout = [a \in Addrs |-> NoTimeout]
    /\ left = [a \in Addrs |-> 0]
    /\ elapsed = [a \in Addrs |-> 0]
    /\ result = [a \in Addrs |-> NoResult]
    /\ dkey = [a \in Addrs |-> 0]
    /\ waits = [a \in Addrs |-> 0]
    /\ rpc = [r \in Resolvers |-> "idle"]
    /\ rid = [r \in Resolvers |-> 0]
    /\ origin = [r \in Resolvers |-> "none"]
    /\ crashed = FALSE
    /\ spurious = 0
    /\ created = 0
    /\ hasId = [a \in Addrs |-> FALSE]
    /\ deadId = [a \in Addrs |-> FALSE]
    /\ stored = [a \in Addrs |-> <<>>]
    /\ instore = [a \in Addrs |-> FALSE]
    /\ intime = [a \in Addrs |-> FALSE]
    /\ tainted = [a \in Addrs |-> FALSE]

\* one address, instances created at it one after another, every resolver
Init == InitIn([addrs |-> {8}, nres |-> NumResolvers])

\* one address, one resolver
InitSolo == InitIn([addrs |-> {8}, nres |-> 1])

\* instances at both addresses at once, one resolver
InitPair == InitIn([addrs |-> {8, 16}, nres |-> 1])

\* instances at a low and at a high address at once, one resolver
InitHigh == InitIn([addrs |-> {8, 40}, nres |-> 1])

\* the process has not died
Running == ~crashed

\* ----------------------------------------------------------- owner context
\* TokenWaiter::new: key 0, the cell empty, the blocker not signalled
New(a) ==
    /\ Running
    /\ a \in scope.addrs
    /\ opc[a] = "none"
    /\ created < MaxInst
    /\ alloc' = [alloc EXCEPT ![a] = TRUE]
    /\ key' = [key EXCEPT ![a] = 0]
    /\ rsp' = [rsp EXCEPT ![a] = None]
    /\ flag' = [flag EXCEPT ![a] = FALSE]
    /\ opc' = [opc EXCEPT ![a] = "ready"]
    /\ created' = created + 1
    /\ UNCHANGED <<timeout, left, elapsed, result, dkey, waits, resolver, crashed,
                   spurious, scope, hist>>

\* TokenWaiter::get_id, called at most once per instance
GetId(a) ==
    /\ Running
    /\ opc[a] = "ready"
    /\ ~hasId[a]
    /\ key' = [key EXCEPT ![a] = Shl3(a)]
    /\ hasId' = [hasId EXCEPT ![a] = TRUE]
    /\ UNCHANGED <<alloc, rsp, flag, owner, resolver, crashed, spurious, created, scope,
                   deadId, stored, instore, intime, tainted>>

\* the owner is inside wait_rsp
InWait(a) == opc[a] \in {"parked", "woken"}

\* the wait_rsp call in progress on a has a timeout
TimedWait(a) == InWait(a) /\ timeout[a] # NoTimeout

\* the wait_rsp call in progress on a is past its deadline
PastDeadline(a) == TimedWait(a) /\ elapsed[a] >= timeout[a]

\* wait_rsp entry: the first blocker.park(timeout). The owner waits on an instance
\* whose id it has handed out.
WaitRsp(a, d) ==
    /\ Running
    /\ opc[a] = "ready"
    /\ hasId[a]
    /\ waits[a] < MaxWaits
    /\ opc' = [opc EXCEPT ![a] = "parked"]
    /\ timeout' = [timeout EXCEPT ![a] = d]
    /\ left' = [left EXCEPT ![a] = d]
    /\ elapsed' = [elapsed EXCEPT ![a] = 0]
    /\ waits' = [waits EXCEPT ![a] = @ + 1]
    /\ UNCHANGED <<mem, result, dkey, resolver, crashed, spurious, created, scope, hist>>

\* blocker.park returns Ok: the wake signal is consumed
ParkOk(a) ==
    /\ Running
    /\ opc[a] = "parked"
    /\ flag[a]
    /\ flag' = [flag EXCEPT ![a] = FALSE]
    /\ opc' = [opc EXCEPT ![a] = "woken"]
    /\ UNCHANGED <<alloc, key, rsp, timeout, left, elapsed, result, dkey, waits,
                   resolver, crashed, spurious, created, scope, hist>>

\* wait_rsp on a returns res: the call's locals go, and the deadline history starts
\* over for the next call
Return(a, res, pc) ==
    /\ result' = [result EXCEPT ![a] = res]
    /\ opc' = [opc EXCEPT ![a] = pc]
    /\ timeout' = [timeout EXCEPT ![a] = NoTimeout]
    /\ left' = [left EXCEPT ![a] = 0]
    /\ elapsed' = [elapsed EXCEPT ![a] = 0]
    /\ instore' = [instore EXCEPT ![a] = FALSE]
    /\ intime' = [intime EXCEPT ![a] = FALSE]

\* TakeSome, reading the cell without emptying it
TakeSomeKeeps(a) ==
    /\ Running
    /\ opc[a] = "woken"
    /\ rsp[a] # None
    /\ Return(a, Res("Ok", rsp[a]), "ready")
    /\ UNCHANGED <<mem, dkey, waits, resolver, crashed, spurious,
                   created, scope, hasId, deadId, stored, tainted>>

\* Ok(_) => match self.rsp.take(): Some(rsp) => return Ok(rsp)
TakeSome(a) ==
    /\ Running
    /\ opc[a] = "woken"
    /\ rsp[a] # None
    /\ rsp' = [rsp EXCEPT ![a] = None]
    /\ Return(a, Res("Ok", rsp[a]), "ready")
    /\ UNCHANGED <<alloc, key, flag, dkey, waits, resolver, crashed, spurious,
                   created, scope, hasId, deadId, stored, tainted>>

\* the timeout the loop hands to the next blocker.park
Repark(a) == timeout[a]

\* TakeNone, a wake with an empty cell that ends the wait
TakeNoneReturns(a) ==
    /\ Running
    /\ opc[a] = "woken"
    /\ rsp[a] = None
    /\ Return(a, Res("Ok", rsp[a]), "ready")
    /\ UNCHANGED <<mem, dkey, waits, resolver, crashed, spurious,
                   created, scope, hasId, deadId, stored, tainted>>

\* None => {} : false wakeup, loop to blocker.park(timeout) again
TakeNone(a) ==
    /\ Running
    /\ opc[a] = "woken"
    /\ rsp[a] = None
    /\ opc' = [opc EXCEPT ![a] = "parked"]
    /\ left' = [left EXCEPT ![a] = Repark(a)]
    /\ UNCHANGED <<mem, timeout, elapsed, result, dkey, waits,
                   resolver, crashed, spurious, created, scope, hist>>

\* ParkCanceled, a cancellation reported to the caller as a timeout
ParkCanceledReturns(a) ==
    /\ Running
    /\ opc[a] = "parked"
    /\ Return(a, Res("TimedOut", 0), "ready")
    /\ UNCHANGED <<mem, dkey, waits, resolver, crashed, spurious,
                   created, scope, hasId, deadId, stored, tainted>>

\* Err(ParkError::Canceled) => trigger_cancel_panic(): the context unwinds
ParkCanceled(a) ==
    /\ Running
    /\ opc[a] = "parked"
    /\ Return(a, Res("Canceled", 0), "canceled")
    /\ UNCHANGED <<mem, dkey, waits, resolver, crashed, spurious,
                   created, scope, hasId, deadId, stored, tainted>>

\* the blocker is woken by something other than set_rsp
SpuriousWake(a) ==
    /\ Running
    /\ opc[a] = "parked"
    /\ ~flag[a]
    /\ spurious < MaxSpurious
    /\ flag' = [flag EXCEPT ![a] = TRUE]
    /\ spurious' = spurious + 1
    /\ UNCHANGED <<alloc, key, rsp, owner, resolver, crashed, created, scope, hist>>

\* a park with a timeout still running
Timed(a) == opc[a] = "parked" /\ timeout[a] # NoTimeout /\ left[a] > 0

\* the park on a times out at this tick
Expires(a) == Timed(a) /\ left[a] = 1 /\ ~flag[a]

\* elapsed saturates one past the longest timeout
ElapsedCap == MaxTimeout + 1

\* one tick of time: running parks count down, and a park whose time is up with no
\* wake signal returns Err(ParkError::Timeout), so wait_rsp returns TimedOut
Tick ==
    /\ Running
    /\ \E a \in Addrs : Timed(a) \/ (TimedWait(a) /\ elapsed[a] < ElapsedCap)
    /\ left' = [a \in Addrs |->
                  IF Expires(a) THEN 0 ELSE IF Timed(a) THEN left[a] - 1 ELSE left[a]]
    /\ elapsed' = [a \in Addrs |->
                     IF Expires(a) THEN 0
                     ELSE IF TimedWait(a) /\ elapsed[a] < ElapsedCap
                          THEN elapsed[a] + 1 ELSE elapsed[a]]
    /\ timeout' = [a \in Addrs |-> IF Expires(a) THEN NoTimeout ELSE timeout[a]]
    /\ opc' = [a \in Addrs |-> IF Expires(a) THEN "ready" ELSE opc[a]]
    /\ result' = [a \in Addrs |-> IF Expires(a) THEN Res("TimedOut", 0) ELSE result[a]]
    /\ instore' = [a \in Addrs |-> IF Expires(a) THEN FALSE ELSE instore[a]]
    /\ intime' = [a \in Addrs |-> IF Expires(a) THEN FALSE ELSE intime[a]]
    /\ UNCHANGED <<mem, dkey, waits, resolver, crashed, spurious, created, scope,
                   hasId, deadId, stored, tainted>>

\* drop: let key = self.key.load(Relaxed) & !1
DropLoad(a) ==
    /\ Running
    /\ opc[a] \in {"ready", "canceled"}
    /\ dkey' = [dkey EXCEPT ![a] = ClearLock(key[a])]
    /\ opc' = [opc EXCEPT ![a] = "dropspin"]
    /\ UNCHANGED <<mem, timeout, left, elapsed, result, waits,
                   resolver, crashed, spurious, created, scope, hist>>

\* DropExpects, a drop that takes the key whatever it holds
DropExpectsAny(a) == key[a]

\* the value drop's compare_and_swap expects to find in the key
DropExpects(a) == dkey[a]

\* drop: compare_and_swap(key, 0) finds key; the loop ends, the fields are dropped
\* and the storage is returned
DropCas(a) ==
    /\ Running
    /\ opc[a] = "dropspin"
    /\ key[a] = DropExpects(a)
    /\ key' = [key EXCEPT ![a] = 0]
    /\ alloc' = [alloc EXCEPT ![a] = FALSE]
    /\ rsp' = [rsp EXCEPT ![a] = None]
    /\ flag' = [flag EXCEPT ![a] = FALSE]
    /\ opc' = [opc EXCEPT ![a] = "none"]
    /\ dkey' = [dkey EXCEPT ![a] = 0]
    /\ result' = [result EXCEPT ![a] = NoResult]
    /\ waits' = [waits EXCEPT ![a] = 0]
    /\ hasId' = [hasId EXCEPT ![a] = FALSE]
    /\ deadId' = [deadId EXCEPT ![a] = @ \/ hasId[a]]
    /\ stored' = [stored EXCEPT ![a] = <<>>]
    /\ instore' = [instore EXCEPT ![a] = FALSE]
    /\ intime' = [intime EXCEPT ![a] = FALSE]
    /\ tainted' = [tainted EXCEPT ![a] = FALSE]
    /\ origin' = [r \in Resolvers |->
                    IF Shr3(rid[r]) = a
                         /\ \/ rpc[r] \in {"locked", "store", "unpark"}
                            \/ rpc[r] = "cas" /\ origin[r] # "forged"
                    THEN "dangling" ELSE origin[r]]
    /\ UNCHANGED <<timeout, left, elapsed, rpc, rid, crashed, spurious, created, scope>>

\* drop: compare_and_swap(key, 0) finds another value; spin_loop_hint and retry
DropSpin(a) ==
    /\ Running
    /\ opc[a] = "dropspin"
    /\ key[a] # DropExpects(a)
    /\ UNCHANGED vars

\* -------------------------------------------------------- resolver context
\* from_id: let address = id >> 3
Address(r) == Shr3(rid[r])

\* the memory resolver r dereferences holds a live instance
Live(r) == Address(r) \in Addrs /\ alloc[Address(r)]

\* the calls the transport can make now: <<id, o>>, o telling where id comes from
Calls ==
    {<<Token(a), IF opc[a] = "ready" /\ result[a].kind = "TimedOut"
                 THEN "late" ELSE "live">> : a \in {x \in Addrs : alloc[x] /\ hasId[x]}}
        \cup {<<Token(a), "stale">> : a \in {x \in Addrs : deadId[x]}}
        \cup {<<id, "forged">> :
                id \in {i \in ForgedIds :
                          \A a \in Addrs : i = Token(a) => ~hasId[a] /\ ~deadId[a]}}

\* set_rsp(id, ValueOf(r)) is called, and from_id checks the alignment of id >> 3
SetRspCall(r, id, o) ==
    /\ Running
    /\ rpc[r] = "idle"
    /\ r <= scope.nres
    /\ \A q \in Resolvers : q < r => rpc[q] # "idle"
    /\ IF Misaligned(Shr3(id))
       THEN /\ rpc' = [rpc EXCEPT ![r] = "done"]
            /\ UNCHANGED <<rid, origin>>
       ELSE /\ rpc' = [rpc EXCEPT ![r] = "cas"]
            /\ rid' = [rid EXCEPT ![r] = id]
            /\ origin' = [origin EXCEPT ![r] = o]
    /\ UNCHANGED <<mem, owner, crashed, spurious, created, scope, hist>>

\* set_rsp returns: the call's locals go
Done(r) ==
    /\ rpc' = [rpc EXCEPT ![r] = "done"]
    /\ rid' = [rid EXCEPT ![r] = 0]
    /\ origin' = [origin EXCEPT ![r] = "none"]

\* the value from_id stores when its compare_and_swap succeeds
Locked(id) == (id + 1) % WordSize

\* FromIdCas, a compare_and_swap that takes a locked key for the id as well
FromIdIgnoresLock(r) ==
    /\ Running
    /\ rpc[r] = "cas"
    /\ Address(r) \in Addrs
    /\ LET a == Address(r) IN
        IF ClearLock(key[a]) = rid[r]
        THEN /\ key' = [key EXCEPT ![a] = Locked(rid[r])]
             /\ rpc' = [rpc EXCEPT ![r] = "locked"]
             /\ tainted' = [tainted EXCEPT ![a] = @ \/ (origin[r] = "forged" /\ alloc[a])]
             /\ UNCHANGED <<rid, origin>>
        ELSE /\ Done(r)
             /\ UNCHANGED <<key, tainted>>
    /\ UNCHANGED <<alloc, rsp, flag, owner, crashed, spurious, created, scope,
                   hasId, deadId, stored, instore, intime>>

\* FromIdCas, writing id + 1 to the key whatever it held
FromIdSwaps(r) ==
    /\ Running
    /\ rpc[r] = "cas"
    /\ Address(r) \in Addrs
    /\ LET a == Address(r) IN
        /\ key' = [key EXCEPT ![a] = Locked(rid[r])]
        /\ IF key[a] = rid[r]
           THEN /\ rpc' = [rpc EXCEPT ![r] = "locked"]
                /\ tainted' = [tainted EXCEPT ![a] = @ \/ (origin[r] = "forged" /\ alloc[a])]
                /\ UNCHANGED <<rid, origin>>
           ELSE /\ Done(r)
                /\ UNCHANGED tainted
    /\ UNCHANGED <<alloc, rsp, flag, owner, crashed, spurious, created, scope,
                   hasId, deadId, stored, instore, intime>>

\* from_id: waiter.key.compare_and_swap(id, id + 1) on the memory at id >> 3
FromIdCas(r) ==
    /\ Running
    /\ rpc[r] = "cas"
    /\ Address(r) \in Addrs
    /\ LET a == Address(r) IN
        IF key[a] = rid[r]
        THEN /\ key' = [key EXCEPT ![a] = Locked(rid[r])]
             /\ rpc' = [rpc EXCEPT ![r] = "locked"]
             /\ tainted' = [tainted EXCEPT ![a] = @ \/ (origin[r] = "forged" /\ alloc[a])]
             /\ UNCHANGED <<rid, origin>>
        ELSE /\ Done(r)
             /\ UNCHANGED <<key, tainted>>
    /\ UNCHANGED <<alloc, rsp, flag, owner, crashed, spurious, created, scope,
                   hasId, deadId, stored, instore, intime>>

\* from_id dereferences an address where no instance ever was: the memory, if it
\* can be read at all, does not hold id
FromIdWild(r) ==
    /\ Running
    /\ rpc[r] = "cas"
    /\ Address(r) \notin Addrs
    /\ Done(r)
    /\ UNCHANGED <<mem, owner, crashed, spurious, created, scope, hist>>

\* r, its instance dropped, writes to the instance now at the address
Taints(r) == origin[r] = "dangling" /\ Live(r)

\* set_rsp: waiter.key.fetch_and(!1)
FetchAnd(r) ==
    /\ Running
    /\ rpc[r] = "locked"
    /\ key' = [key EXCEPT ![Address(r)] = ClearLock(@)]
    /\ rpc' = [rpc EXCEPT ![r] = "store"]
    /\ tainted' = [tainted EXCEPT ![Address(r)] = @ \/ Taints(r)]
    /\ UNCHANGED <<alloc, rsp, flag, owner, rid, origin, crashed, spurious,
                   created, scope, hasId, deadId, stored, instore, intime>>

\* a set_rsp step on the instance at a now is not after the deadline of a wait
InTime(a) == alloc[a] /\ ~PastDeadline(a)

\* WaiterSwap, a store that leaves the cell of a timed-out wait alone
WaiterSwapUnlessLate(r) ==
    /\ Running
    /\ rpc[r] = "store"
    /\ LET a == Address(r) IN
        /\ rsp' = [rsp EXCEPT ![a] = IF origin[r] = "late" THEN @ ELSE ValueOf(r)]
        /\ stored' = [stored EXCEPT ![a] = IF alloc[a] THEN Append(@, ValueOf(r)) ELSE @]
        /\ instore' = [instore EXCEPT ![a] = @ \/ InTime(a)]
        /\ tainted' = [tainted EXCEPT ![a] = @ \/ Taints(r)]
    /\ rpc' = [rpc EXCEPT ![r] = "unpark"]
    /\ UNCHANGED <<alloc, key, flag, owner, rid, origin, crashed, spurious,
                   created, scope, hasId, deadId, intime>>

\* Waiter::set_rsp: self.rsp.swap(rsp)
WaiterSwap(r) ==
    /\ Running
    /\ rpc[r] = "store"
    /\ LET a == Address(r) IN
        /\ rsp' = [rsp EXCEPT ![a] = ValueOf(r)]
        /\ stored' = [stored EXCEPT ![a] = IF alloc[a] THEN Append(@, ValueOf(r)) ELSE @]
        /\ instore' = [instore EXCEPT ![a] = @ \/ InTime(a)]
        /\ tainted' = [tainted EXCEPT ![a] = @ \/ Taints(r)]
    /\ rpc' = [rpc EXCEPT ![r] = "unpark"]
    /\ UNCHANGED <<alloc, key, flag, owner, rid, origin, crashed, spurious,
                   created, scope, hasId, deadId, intime>>

\* Unpark, a wake signal that is lost unless the owner is parked at this moment
UnparkIfParked(r) ==
    /\ Running
    /\ rpc[r] = "unpark"
    /\ LET a == Address(r) IN
        /\ flag' = [flag EXCEPT ![a] = opc[a] = "parked"]
        /\ intime' = [intime EXCEPT ![a] = @ \/ InTime(a)]
        /\ tainted' = [tainted EXCEPT ![a] = @ \/ Taints(r)]
    /\ Done(r)
    /\ UNCHANGED <<alloc, key, rsp, owner, crashed, spurious, created, scope,
                   hasId, deadId, stored, instore>>

\* Waiter::set_rsp: self.blocker.unpark()
Unpark(r) ==
    /\ Running
    /\ rpc[r] = "unpark"
    /\ LET a == Address(r) IN
        /\ flag' = [flag EXCEPT ![a] = TRUE]
        /\ intime' = [intime EXCEPT ![a] = @ \/ InTime(a)]
        /\ tainted' = [tainted EXCEPT ![a] = @ \/ Taints(r)]
    /\ Done(r)
    /\ UNCHANGED <<alloc, key, rsp, owner, crashed, spurious, created, scope,
                   hasId, deadId, stored, instore>>

\* a dereference of memory that holds no live instance faults: the process dies
Fault(r) ==
    /\ Running
    /\ rpc[r] \in {"cas", "locked", "store", "unpark"}
    /\ ~Live(r)
    /\ crashed' = TRUE
    /\ rpc' = [rpc EXCEPT ![r] = "fault"]
    /\ UNCHANGED <<mem, owner, rid, origin, spurious, created, scope, hist>>

\* --------------------------------------------------------------------- Next
Next ==
    \/ \E a \in Addrs : New(a)
    \/ \E a \in Addrs : GetId(a)
    \/ \E a \in Addrs, d \in Timeouts : WaitRsp(a, d)
    \/ \E a \in Addrs : ParkOk(a)
    \/ \E a \in Addrs : TakeSome(a)
    \/ \E a \in Addrs : TakeNone(a)
    \/ \E a \in Addrs : ParkCanceled(a)
    \/ \E a \in Addrs : SpuriousWake(a)
    \/ Tick
    \/ \E a \in Addrs : DropLoad(a)
    \/ \E a \in Addrs : DropCas(a)
    \/ \E a \in Addrs : DropSpin(a)
    \/ \E r \in Resolvers, c \in Calls : SetRspCall(r, c[1], c[2])
    \/ \E r \in Resolvers : FromIdCas(r)
    \/ \E r \in Resolvers : FromIdWild(r)
    \/ \E r \in Resolvers : FetchAnd(r)
    \/ \E r \in Resolvers : WaiterSwap(r)
    \/ \E r \in Resolvers : Unpark(r)
    \/ \E r \in Resolvers : Fault(r)

Spec == Init /\ [][Next]_vars

SpecPair == InitPair /\ [][Next]_vars

SpecHigh == InitHigh /\ [][Next]_vars

\* ------------------------------------------------------------------ claims
\* this step is the return of a wait_rsp call on a with a result (Ok or TimedOut)
Returns(a) == InWait(a) /\ opc'[a] = "ready"

\* C1: round-trip delivery.  When the first wait_rsp on an instance returns, exactly
\* one value v was ever stored into its cell and that set_rsp completed (store and
\* unpark) before the deadline, and no other call wrote to the instance, then the
\* result is Ok(v) and the cell is empty.
C1_RoundTrip ==
    [][\A a \in Addrs :
          (Returns(a) /\ waits[a] = 1 /\ Len(stored[a]) = 1 /\ intime[a]
                /\ ~tainted[a])
              => (result'[a] = Res("Ok", stored[a][1]) /\ rsp'[a] = None)]_vars

\* a first wait returned Ok(v), v the one value delivered, and the cell is empty
C1_Witness ==
    \E a \in Addrs :
        /\ opc[a] = "ready" /\ waits[a] = 1
        /\ Len(stored[a]) = 1
        /\ result[a] = Res("Ok", stored[a][1])
        /\ rsp[a] = None
        /\ \A r \in Resolvers : rpc[r] \in {"idle", "done"}

\* this step is drop's successful compare_and_swap on the instance at a
Destroys(a) == alloc[a] /\ ~alloc'[a]

\* r holds the lease of the instance at a: from_id's compare_and_swap succeeded and
\* the lock bit is not yet cleared
HoldsLease(r, a) ==
    rpc[r] = "locked" /\ Address(r) = a /\ origin[r] \in {"live", "late"}

\* C2: destruction waits for the lease.  Drop's compare_and_swap to 0 never succeeds
\* while the key has its lock bit set, and, on an instance that only calls with its
\* own token have locked, never while a resolver holds the lease.
C2_DropWaitsForLease ==
    [][\A a \in Addrs :
          Destroys(a) =>
              /\ key[a] % 2 = 0
              /\ ~tainted[a] => \A r \in Resolvers : ~HoldsLease(r, a)]_vars

\* a drop is spinning on an instance whose lease a resolver holds
C2_Witness ==
    \E a \in Addrs, r \in Resolvers :
        /\ opc[a] = "dropspin"
        /\ HoldsLease(r, a)
        /\ key[a] = Token(a) + 1
        /\ ~tainted[a]

\* C3: a set_rsp that won the lease stores and wakes before the instance is
\* destroyed: drop never succeeds while such a call still has its store or its
\* unpark to do.
C3_StoreBeforeDrop ==
    [][\A a \in Addrs :
          (Destroys(a) /\ ~tainted[a]) =>
              \A r \in Resolvers :
                  ~(Address(r) = a /\ rpc[r] \in {"store", "unpark"})]_vars

\* this step is a memory access of resolver r's set_rsp
Derefs(r) ==
    /\ rpc[r] \in {"cas", "locked", "store", "unpark"}
    /\ rpc'[r] # rpc[r]

\* C4: no access after reclamation.  Every memory access of a set_rsp called with an
\* id that a get_id returned is to the live instance the call began on.
C4_NoAccessAfterDrop ==
    [][\A r \in Resolvers :
          (Derefs(r) /\ origin[r] # "forged") =>
              (Live(r) /\ origin[r] \in {"live", "late"})]_vars

\* this tick brings the deadline of the wait_rsp blocked on the instance at a
DeadlineReached(a) ==
    /\ Tick
    /\ opc[a] = "parked"
    /\ TimedWait(a)
    /\ elapsed[a] + 1 = timeout[a]

\* C5: timeout result.  When the deadline of a wait_rsp with a timeout is reached and
\* no set_rsp has stored a value or signalled a wake, the blocked wait_rsp returns
\* TimedOut.
C5_TimeoutResult ==
    [][\A a \in Addrs :
          (DeadlineReached(a) /\ rsp[a] = None /\ ~flag[a] /\ ~tainted[a])
              => (opc'[a] = "ready" /\ result'[a].kind = "TimedOut")]_vars

\* this step is a step of a set_rsp called after the wait of its instance timed out
LateStep(r) == origin[r] = "late" /\ Live(r) /\ rpc'[r] # rpc[r]

\* C6 as stated: a set_rsp called after wait_rsp returned TimedOut leaves no value in
\* the cell and no wake pending.
C6_LateCompletionNoEffect ==
    [][\A r \in Resolvers :
          LateStep(r) =>
              /\ rsp'[Address(r)] = rsp[Address(r)]
              /\ flag'[Address(r)] = flag[Address(r)]]_vars

\* C6: a set_rsp(T, v) called after wait_rsp returned TimedOut runs without a fault
\* and leaves the returned TimedOut as it is, but it stores v in the cell and leaves
\* the wake pending, and a second wait_rsp on the instance then returns Ok(v).
C6_LateCompletionDelivered ==
    [][/\ \A r \in Resolvers :
            LateStep(r) =>
                /\ ~crashed'
                /\ result'[Address(r)] = result[Address(r)]
                /\ rpc[r] = "store" => rsp'[Address(r)] = ValueOf(r)
                /\ rpc[r] = "unpark" => flag'[Address(r)]
       /\ \A a \in Addrs :
            (Returns(a) /\ waits[a] = 2 /\ result[a].kind = "TimedOut"
                  /\ Len(stored[a]) = 1 /\ intime[a] /\ ~tainted[a])
                => (result'[a] = Res("Ok", stored[a][1]) /\ rsp'[a] = None)]_vars

\* the first wait timed out, then a set_rsp stored a value and left the wake pending
C6_Witness ==
    \E a \in Addrs :
        /\ opc[a] = "ready" /\ waits[a] = 1
        /\ result[a].kind = "TimedOut"
        /\ Len(stored[a]) = 1 /\ rsp[a] = stored[a][1]
        /\ flag[a]
        /\ ~tainted[a]

\* r's set_rsp got past from_id's compare_and_swap, or faulted
Resolved(r) == rpc[r] \in {"locked", "store", "unpark", "fault"}

\* C7: stale token.  A set_rsp called with the token of a dropped instance never gets
\* past from_id and never faults.
C7_StaleTokenNoOp == \A r \in Resolvers : origin[r] = "stale" => ~Resolved(r)

\* C8: never-issued token.  A set_rsp called with an id no get_id returned never gets
\* past from_id and never faults.
C8_NeverIssuedNoOp == \A r \in Resolvers : origin[r] = "forged" => ~Resolved(r)

\* C10: at most one value is ever stored into the cell of one instance.
C10_AtMostOneValue == \A a \in Addrs : ~tainted[a] => Len(stored[a]) <= 1

\* ---------------------------------------------------------------- fair scheduling
\* every context that can take its next step eventually takes it: each owner's
\* wait_rsp and drop loops, each set_rsp call, and the timer
Fairness ==
    /\ \A a \in Addrs :
          /\ WF_vars(ParkOk(a))
          /\ WF_vars(TakeSome(a))
          /\ WF_vars(TakeNone(a))
          /\ WF_vars(DropCas(a))
    /\ \A r \in Resolvers :
          /\ WF_vars(FromIdCas(r))
          /\ WF_vars(FromIdWild(r))
          /\ WF_vars(FetchAnd(r))
          /\ WF_vars(WaiterSwap(r))
          /\ WF_vars(Unpark(r))
    /\ WF_vars(Tick)

FairSpecPair == SpecPair /\ Fairness

\* every set_rsp call so far was made with the token of an instance live at the call
OnlyIssuedTokens == \A r \in Resolvers : origin[r] \notin {"forged", "stale"}

\* C9: no leaked lease, destruction terminates.  Under fair scheduling, when set_rsp
\* is only ever called with tokens of live instances, a key with its lock bit set
\* eventually has it cleared, and every drop that entered its spin loop eventually
\* leaves it with the instance destroyed.
C9_NoLeakedLease ==
    ([]OnlyIssuedTokens) =>
        /\ \A a \in Addrs : (alloc[a] /\ key[a] % 2 = 1) ~> (key[a] % 2 = 0)
        /\ \A a \in Addrs : (opc[a] = "dropspin") ~> (opc[a] = "none")

\* C11: cancellation is not a return value.  When park reports Canceled, wait_rsp
\* returns neither Ok nor TimedOut and the context unwinds; an unwinding context
\* never waits again, the only thing it still does to the instance is drop it.
C11_CancelUnwinds ==
    [][\A a \in Addrs :
          /\ ParkCanceled(a) =>
                /\ opc'[a] = "canceled"
                /\ result'[a].kind \notin {"Ok", "TimedOut"}
          /\ opc[a] = "canceled" =>
                /\ opc'[a] \in {"canceled", "dropspin"}
                /\ result'[a] = result[a]]_vars

\* a canceled wait is unwinding through the drop of its instance
C11_Witness ==
    \E a \in Addrs :
        /\ opc[a] = "dropspin"
        /\ result[a] = Res("Canceled", 0)
        /\ waits[a] = 1

\* the changes of the key of the instance at a that the state machine allows
KeySteps(a) ==
    {<<0, Token(a)>>, <<Token(a), Token(a) + 1>>,
     <<Token(a) + 1, Token(a)>>, <<Token(a), 0>>}

\* C12: key state machine.  The key of an instance at a is always 0, its token T or
\* T + 1, and it changes only 0 -> T, T -> T + 1, T + 1 -> T and T -> 0.
C12_KeyStateMachine ==
    [][\A a \in Addrs :
          /\ key'[a] \in {0, Token(a), Token(a) + 1}
          /\ key'[a] # key[a] => <<key[a], key'[a]>> \in KeySteps(a)]_vars

\* the owner of the instance at a, woken, takes its next step
WokenStep(a) == opc[a] = "woken" /\ opc'[a] # "woken"

\* C13: spurious wake re-blocks.  A wait_rsp woken with an empty cell parks again and
\* returns nothing, and a wait_rsp returns Ok only with the value it took from the
\* cell, the last one a set_rsp stored there.
C13_SpuriousWakeReblocks ==
    [][\A a \in Addrs :
          /\ (WokenStep(a) /\ rsp[a] = None) =>
                (opc'[a] = "parked" /\ result'[a] = result[a])
          /\ (Returns(a) /\ result'[a].kind = "Ok") =>
                /\ rsp[a] # None
                /\ Len(stored[a]) > 0
                /\ result'[a].val = stored[a][Len(stored[a])]]_vars

\* a wait woken with an empty cell is parked again, time having passed since the call
C13_Witness ==
    \E a \in Addrs :
        /\ opc[a] = "parked" /\ TimedWait(a)
        /\ spurious > 0
        /\ rsp[a] = None /\ ~flag[a]
        /\ elapsed[a] > 0 /\ left[a] = timeout[a]
        /\ stored[a] = <<>>

\* C14: deadline across retries.  A wait_rsp with timeout d that parks again after a
\* wake with an empty cell parks for no longer than the time remaining of d, so that
\* it returns TimedOut no later than d after the call.
C14_DeadlineAcrossRetries ==
    [][\A a \in Addrs :
          (WokenStep(a) /\ opc'[a] = "parked" /\ TimedWait(a))
              => left'[a] + elapsed[a] <= timeout[a]]_vars

\* r's set_rsp returns without resolving: from_id returned None
Fails(r) == rpc[r] \in {"idle", "cas"} /\ rpc'[r] = "done"

\* C15: failed completion changes nothing.  A set_rsp whose from_id returns None, for
\* the alignment of the id or for a key other than the id, leaves the key, the cell
\* and the wake signal of every instance as they were, and raises no error.
C15_FailedCompletionNoOp ==
    [][\A r \in Resolvers :
          Fails(r) =>
              /\ key' = key /\ rsp' = rsp /\ flag' = flag /\ alloc' = alloc
              /\ owner' = owner
              /\ ~crashed']_vars

\* a set_rsp has returned while another call holds the lease, nothing being stored
C15_Witness ==
    \E a \in Addrs, r, q \in Resolvers :
        /\ HoldsLease(r, a) /\ key[a] = Token(a) + 1
        /\ rpc[q] = "done"
        /\ created = 1 /\ stored[a] = <<>> /\ rsp[a] = None /\ ~flag[a]

\* the resolvers that hold the lease of the instance at a
LeaseHolders(a) == {r \in Resolvers : HoldsLease(r, a)}

\* r, called with the token of the instance at a, finishes from_id in this step
FromIdStep(r, a) ==
    /\ rpc[r] = "cas" /\ rid[r] = Token(a)
    /\ rpc'[r] \in {"locked", "done"}

\* C16: lease exclusivity.  At most one context holds the lease of an instance, and a
\* from_id called with the token while another context holds the lease returns None.
C16_LeaseExclusive ==
    [][\A a \in Addrs :
          ~tainted'[a] =>
              /\ Cardinality(LeaseHolders(a))' <= 1
              /\ \A r \in Resolvers :
                    (FromIdStep(r, a) /\ LeaseHolders(a) # {}) => rpc'[r] = "done"]_vars

\* a resolver holds the lease while another call with the same token is in from_id
C16_Witness ==
    \E a \in Addrs, r, q \in Resolvers :
        /\ r # q
        /\ HoldsLease(r, a) /\ key[a] = Token(a) + 1
        /\ rpc[q] = "cas" /\ rid[q] = Token(a) /\ origin[q] = "live"
        /\ ~tainted[a]

\* the modulus of the flag bits that the << 3 of the encoding reserves
FlagModulus == Shl3(1)

\* r's set_rsp got past from_id's alignment check
PastAlignment(r) == rpc[r] \in {"cas", "locked", "store", "unpark", "fault"}

\* C17: alignment check.  from_id goes on to dereference the address id >> 3 only if
\* that address is divisible by the modulus of the 3 flag bits, 8.
C17_AlignmentCheck ==
    \A r \in Resolvers : PastAlignment(r) => Address(r) % FlagModulus = 0

\* C18: token encoding round-trip.  The token a << 3 that get_id hands out for the
\* instance at a has its 3 low bits zero and decodes to a again, token >> 3 = a, and
\* two live instances never have the same token.
C18_TokenRoundTrip ==
    \A a \in Addrs :
        (alloc[a] /\ hasId[a]) =>
            /\ Token(a) % FlagModulus = 0
            /\ Shr3(Token(a)) = a
            /\ \A b \in Addrs \ {a} : (alloc[b] /\ hasId[b]) => Token(b) # Token(a)

FairSpecSolo == InitSolo /\ [][Next]_vars /\ Fairness

\* the owner of the instance at a consumes the wake signal or the value in this step
Consumes(a) ==
    \/ opc[a] = "parked" /\ opc'[a] = "woken"
    \/ Returns(a) /\ result'[a].kind = "Ok"
    \/ Destroys(a)

\* a wait_rsp with no timeout is blocked on the instance at a, a value in its cell
WaitsOnValue(a) == InWait(a) /\ timeout[a] = NoTimeout /\ rsp[a] # None

\* C19: no lost wake-up.  The wake signal and the value a set_rsp left persist until
\* the owner consumes them, whether or not the owner was parked when they came; and
\* under fair scheduling, set_rsp being called with issued tokens only, a wait_rsp
\* with no timeout that has a value in its cell eventually ends.
C19_NoLostWakeup ==
    /\ [][\A a \in Addrs :
             /\ (alloc[a] /\ flag[a] /\ ~flag'[a]) => Consumes(a)
             /\ (alloc[a] /\ rsp[a] # None /\ rsp'[a] = None) => Consumes(a)]_vars
    /\ ([]OnlyIssuedTokens) =>
           \A a \in Addrs : WaitsOnValue(a) ~> ~InWait(a)

\* a set_rsp completed before the owner parked: the wait with no timeout starts with
\* the value in the cell and the wake pending
C19_Witness ==
    \E a \in Addrs :
        /\ opc[a] = "parked" /\ timeout[a] = NoTimeout
        /\ rsp[a] # None /\ flag[a]
        /\ waits[a] = 1 /\ spurious = 0
        /\ stored[a] # <<>>
        /\ \A r \in Resolvers : rpc[r] \in {"idle", "done"}
====
